---- MODULE Spec2Model ----
(***************************************************************************)
(* Model of the CMSIS-SVD parser of src/src/lib.rs: the typed construction *)
(* Device -> Peripheral -> {Register | Cluster} -> Field from an XML tree, *)
(* and the Peripheral::derive_from merge.                                  *)
(*                                                                         *)
(* Encodings.                                                              *)
(*   Option<T>      <<>> is None, <<v>> is Some(v)                         *)
(*   Vec<T>         a sequence                                             *)
(*   Result<T, E>   [kind |-> "Ok", val |-> v] or                          *)
(*                  [kind |-> "Err", err |-> e]; a panic (expect, unwrap,  *)
(*                  assert!, unreachable!) is [kind |-> "Panic"]           *)
(*   Element        [name, attributes, children, text]: the tag, a set of  *)
(*                  <<key, value>> pairs, the children in document order   *)
(*                  and the Option<String> text                            *)
(***************************************************************************)
EXTENDS Integers, Sequences, FiniteSets, TLC

VARIABLES pc, self, other, third, derived, tree, result

vars == <<pc, self, other, third, derived, tree, result>>

----------------------------------------------------------------------------
(* Bounds of the explored inputs *)

MaxInterrupts == 1

MaxChildren == 2

MaxFields == 2

MaxPeripherals == 2

----------------------------------------------------------------------------
(* Option, Result *)

None == <<>>

Some(v) == <<v>>

IsSome(o) == Len(o) = 1

IsNone(o) == Len(o) = 0

Ok(v) == [kind |-> "Ok", val |-> v]

Err(e) == [kind |-> "Err", err |-> e]

Panic == [kind |-> "Panic"]

IsOk(r) == r.kind = "Ok"

(* Option::or *)
OptionOr(a, b) == IF IsSome(a) THEN a ELSE b

(* the crate's try! macro: $e.expect(..) on a Result or an Option *)
Expect(r) == IF IsOk(r) THEN r ELSE Panic

ExpectSome(o) == IF IsSome(o) THEN Ok(o[1]) ELSE Panic

(* SVDErrorKind *)
MissingTag(node, tag) == [kind |-> "MissingTag", node |-> node, tag |-> tag]

NotExpectedTag(node, tag) == [kind |-> "NotExpectedTag", node |-> node, tag |-> tag]

EmptyTag(node) == [kind |-> "EmptyTag", node |-> node]

InvalidLeaf(what, node) == [kind |-> "Invalid", what |-> what, node |-> node]

(* ResultExt::context: the failure wrapped in SVDErrorKind::Other(msg) *)
Context(r, msg, arg) ==
    IF r.kind = "Err"
    THEN Err([kind |-> "Other", msg |-> msg, arg |-> arg, cause |-> r.err])
    ELSE r

(* the first failure, in evaluation order, of the steps of a struct literal *)
RECURSIVE FirstFailure(_)
FirstFailure(steps) ==
    IF IsOk(Head(steps)) THEN FirstFailure(Tail(steps)) ELSE Head(steps)

AllOk(steps) == \A i \in DOMAIN steps : IsOk(steps[i])

(* Iterator::collect into Result<Vec<_>, _>: stops at the first failure *)
Collect(rs) ==
    IF AllOk(rs) THEN Ok([i \in DOMAIN rs |-> rs[i].val]) ELSE FirstFailure(rs)

(* Iterator::filter *)
RECURSIVE FilterByName(_, _)
FilterByName(children, names) ==
    IF children = <<>> THEN <<>>
    ELSE IF Head(children).name \in names
         THEN <<Head(children)>> \o FilterByName(Tail(children), names)
         ELSE FilterByName(Tail(children), names)

----------------------------------------------------------------------------
(* xmltree::Element and ElementExt *)

(* Element::get_child: the first child with the tag k *)
GetChild(t, k) ==
    LET hits == FilterByName(t.children, {k})
    IN IF hits = <<>> THEN None ELSE Some(Head(hits))

HasChild(t, k) == IsSome(GetChild(t, k))

(* tree.attributes.get(k).map(|s| s.to_owned()) *)
GetAttribute(t, k) ==
    IF \E p \in t.attributes : p[1] = k
    THEN Some((CHOOSE p \in t.attributes : p[1] = k)[2])
    ELSE None

(* Some(r?): the value wrapped, or the failure returned *)
OkSome(r) == IF IsOk(r) THEN Ok(Some(r.val)) ELSE r

(* parse::get_text *)
get_text(t) == IF IsSome(t.text) THEN Ok(t.text[1]) ELSE Err(EmptyTag(t))

get_child_text_opt(t, k) ==
    IF HasChild(t, k) THEN OkSome(get_text(GetChild(t, k)[1])) ELSE Ok(None)

(* .ok_or(SVDErrorKind::MissingTag(self.clone(), format!("{}", k)).into()) *)
OkOrMissingTag(r, t, k) ==
    IF ~IsOk(r) THEN r
    ELSE IF IsSome(r.val) THEN Ok(r.val[1])
    ELSE Err(MissingTag(t, k))

get_child_text(t, k) == OkOrMissingTag(get_child_text_opt(t, k), t, k)

----------------------------------------------------------------------------
(* Leaf decoders of the parse and svd modules *)

(* the texts that decode as an unsigned integer, decimal or 0x-prefixed *)
U32Text == {"1", "2", "3", "4", "0x10", "0x20"}

U32Value(s) ==
    CASE s = "1" -> 1 [] s = "2" -> 2 [] s = "3" -> 3 [] s = "4" -> 4
      [] s = "0x10" -> 16 [] s = "0x20" -> 32

(* str::parse::<u32>: decimal digits only *)
DecimalText == {"1", "2", "3", "4"}

AccessText == {"read-only", "write-only", "read-write"}

BitRangeValue(s) ==
    IF s = "[7:0]" THEN [offset |-> 0, width |-> 8] ELSE [offset |-> 8, width |-> 8]

(* what each leaf decoder makes of the texts it accepts *)
DecodeTable(what) ==
    CASE what = "u32" -> [s \in U32Text |-> U32Value(s)]
      [] what = "access" -> [s \in AccessText |-> s]
      [] what = "writeConstraint" -> [s \in {"writeAsRead"} |-> s]
      [] what = "bitRange" -> [s \in {"[7:0]", "[15:8]"} |-> BitRangeValue(s)]

(* the text r of node t decoded, or the decode failure *)
DecodeText(r, t, what) ==
    IF ~IsOk(r) THEN r
    ELSE IF r.val \in DOMAIN DecodeTable(what) THEN Ok(DecodeTable(what)[r.val])
    ELSE Err(InvalidLeaf(what, t))

(* parse::u32 *)
parse_u32(t) == DecodeText(get_text(t), t, "u32")

(* parse::get_child_elem *)
get_child_elem(n, t) ==
    IF HasChild(t, n) THEN Ok(GetChild(t, n)[1]) ELSE Err(MissingTag(t, n))

(* parse::get_child_u32 *)
get_child_u32(n, t) ==
    IF HasChild(t, n) THEN parse_u32(GetChild(t, n)[1]) ELSE Err(MissingTag(t, n))

Access_parse(t) == DecodeText(get_text(t), t, "access")

WriteConstraint_parse(t) == DecodeText(get_text(t), t, "writeConstraint")

(* the bit range of a field, read from the field node *)
BitRange_parse(t) ==
    IF HasChild(t, "bitRange")
    THEN DecodeText(get_text(GetChild(t, "bitRange")[1]), GetChild(t, "bitRange")[1],
                    "bitRange")
    ELSE Err(MissingTag(t, "bitRange"))

(* a table of enumerated values; the table may be empty *)
EnumeratedValues_parse(t) ==
    IF \E i \in DOMAIN t.children : t.children[i].name \notin {"name", "enumeratedValue"}
    THEN Err(NotExpectedTag(t, "enumeratedValue"))
    ELSE Ok([values |-> Len(FilterByName(t.children, {"enumeratedValue"}))])

Interrupt_build(s) ==
    IF AllOk(s) THEN Ok([name |-> s[1].val, value |-> s[2].val]) ELSE FirstFailure(s)

Interrupt_parse(t) ==
    Interrupt_build(<<get_child_text(t, "name"), get_child_u32("value", t)>>)

Cpu_build(s) == IF AllOk(s) THEN Ok([name |-> s[1].val]) ELSE FirstFailure(s)

Cpu_parse(t) == Cpu_build(<<get_child_text(t, "name")>>)

(* the parser handed to parse::optional *)
ApplyParser(f, t) ==
    CASE f = "Access::parse" -> Access_parse(t)
      [] f = "parse::u32" -> parse_u32(t)
      [] f = "WriteConstraint::parse" -> WriteConstraint_parse(t)
      [] f = "Cpu::parse" -> Cpu_parse(t)

(* parse::optional *)
parse_optional(n, t, f) ==
    IF HasChild(t, n) THEN OkSome(ApplyParser(f, GetChild(t, n)[1])) ELSE Ok(None)

(* parse::dim_index: the comma-separated tokens of the text *)
DimIndexTokens(text) ==
    CASE text = "0,1" -> <<"0", "1">>
      [] text = "0,1,2" -> <<"0", "1", "2">>
      [] text = "0,2-4,X" -> <<"0", "2-4", "X">>
      [] OTHER -> <<text>>

(* a token a-b is the inclusive range a..b, any other token is literal *)
ExpandToken(tok) ==
    CASE tok = "0-1" -> <<"0", "1">>
      [] tok = "0-2" -> <<"0", "1", "2">>
      [] tok = "2-4" -> <<"2", "3", "4">>
      [] tok = "A-C" -> <<"A", "B", "C">>
      [] OTHER -> <<tok>>

RECURSIVE ExpandTokens(_)
ExpandTokens(toks) ==
    IF toks = <<>> THEN <<>> ELSE ExpandToken(Head(toks)) \o ExpandTokens(Tail(toks))

parse_dim_index(text) == ExpandTokens(DimIndexTokens(text))

(* str::contains("%s") *)
ContainsPlaceholder(name) == name \in {"REG%s", "CL%s"}

(* try!(parse::u32(t)) *)
parse_u32_or_panic(t) == Expect(parse_u32(t))

(* tree.get_child(k).map(|t| try!(parse::u32(t))) *)
OptionalU32OrPanic(t, k) ==
    IF HasChild(t, k) THEN OkSome(parse_u32_or_panic(GetChild(t, k)[1])) ELSE Ok(None)

----------------------------------------------------------------------------
(* Field *)

Field_build(name, s) ==
    IF AllOk(s)
    THEN Ok([name |-> name,
             description |-> s[1].val,
             bit_range |-> s[2].val,
             access |-> s[3].val,
             enumerated_values |-> s[4].val,
             write_constraint |-> s[5].val])
    ELSE FirstFailure(s)

(* the enumerated_values: initializer of Field::_parse *)
Field_enumerated_values(nodes) ==
    Collect([i \in DOMAIN nodes |-> EnumeratedValues_parse(nodes[i])])

Field__parse(t, name) ==
    Field_build(name,
                <<get_child_text_opt(t, "description"),
                  BitRange_parse(t),
                  parse_optional("access", t, "Access::parse"),
                  Field_enumerated_values(FilterByName(t.children, {"enumeratedValues"})),
                  parse_optional("writeConstraint", t, "WriteConstraint::parse")>>)

(* Field::_parse(tree, name.clone()).context(.. "In field `{}`" ..), once the
   name is read *)
Field_named(t, name) ==
    IF IsOk(name) THEN Context(Field__parse(t, name.val), "In field", name.val)
    ELSE name

Field_parse(t) ==
    IF t.name # "field" THEN Err(NotExpectedTag(t, "field"))
    ELSE Field_named(t, get_child_text(t, "name"))

----------------------------------------------------------------------------
(* RegisterInfo, RegisterClusterArrayInfo, Register *)

(* let fs: Result<Vec<_>, _> = fields.children.iter().map(Field::parse).collect();
   Some(fs?) *)
ParseFields(fields) ==
    OkSome(Collect([i \in DOMAIN fields.children |-> Field_parse(fields.children[i])]))

RegisterInfo_fields_none_when_empty(t) ==
    IF HasChild(t, "fields") /\ GetChild(t, "fields")[1].children # <<>>
    THEN ParseFields(GetChild(t, "fields")[1])
    ELSE Ok(None)

(* the fields: initializer of RegisterInfo::_parse *)
RegisterInfo_fields(t) ==
    IF HasChild(t, "fields") THEN ParseFields(GetChild(t, "fields")[1]) ELSE Ok(None)

RegisterInfo_build(name, s) ==
    IF AllOk(s)
    THEN Ok([name |-> name,
             alternate_group |-> s[1].val,
             alternate_register |-> s[2].val,
             derived_from |-> s[3].val,
             description |-> s[4].val,
             address_offset |-> s[5].val,
             size |-> s[6].val,
             access |-> s[7].val,
             reset_value |-> s[8].val,
             reset_mask |-> s[9].val,
             fields |-> s[10].val,
             write_constraint |-> s[11].val])
    ELSE FirstFailure(s)

RegisterInfo__parse(t, name) ==
    RegisterInfo_build(name,
                       <<get_child_text_opt(t, "alternateGroup"),
                         get_child_text_opt(t, "alternateRegister"),
                         Ok(GetAttribute(t, "derivedFrom")),
                         get_child_text(t, "description"),
                         get_child_u32("addressOffset", t),
                         OptionalU32OrPanic(t, "size"),
                         parse_optional("access", t, "Access::parse"),
                         parse_optional("resetValue", t, "parse::u32"),
                         parse_optional("resetMask", t, "parse::u32"),
                         RegisterInfo_fields(t),
                         parse_optional("writeConstraint", t, "WriteConstraint::parse")>>)

(* RegisterInfo::_parse(tree, name.clone()).context(.. "In register `{}`" ..),
   once the name is read *)
RegisterInfo_named(t, name) ==
    IF IsOk(name) THEN Context(RegisterInfo__parse(t, name.val), "In register", name.val)
    ELSE name

RegisterInfo_parse(t) == RegisterInfo_named(t, get_child_text(t, "name"))

(* tree.get_child_text("dim")?.parse::<u32>().context("<dim> invalid")? *)
ParseDim(t, text) ==
    IF ~IsOk(text) THEN text
    ELSE IF text.val \in DecimalText THEN Ok(U32Value(text.val))
    ELSE Err([kind |-> "Other", msg |-> "<dim> invalid", arg |-> text.val,
              cause |-> InvalidLeaf("dim", t)])

(* try!(tree.get_child("dimIncrement").map(|t| try!(parse::u32(t)))) *)
ParseDimIncrement(o) == IF IsOk(o) THEN ExpectSome(o.val) ELSE o

(* parse::dim_index(try!(c.text.as_ref())) *)
ParseDimIndex(c) ==
    IF IsSome(c.text) THEN Ok(Some(parse_dim_index(c.text[1]))) ELSE Panic

RegisterClusterArrayInfo_build(s) ==
    IF AllOk(s)
    THEN Ok([dim |-> s[1].val, dim_increment |-> s[2].val, dim_index |-> s[3].val])
    ELSE FirstFailure(s)

RegisterClusterArrayInfo_parse(t) ==
    RegisterClusterArrayInfo_build(
        <<ParseDim(t, get_child_text(t, "dim")),
          ParseDimIncrement(OptionalU32OrPanic(t, "dimIncrement")),
          IF HasChild(t, "dimIndex") THEN ParseDimIndex(GetChild(t, "dimIndex")[1])
          ELSE Ok(None)>>)

(* assert!(info.name.contains("%s")); the assert_eq! on the index list;
   Ok(Array(info, array_info)) *)
CheckedArray(info, array_info) ==
    IF ~IsOk(array_info) THEN array_info
    ELSE IF ~ContainsPlaceholder(info.name) THEN Panic
    ELSE IF IsSome(array_info.val.dim_index)
            /\ array_info.val.dim # Len(array_info.val.dim_index[1])
    THEN Panic
    ELSE Ok([variant |-> "Array", info |-> info, array_info |-> array_info.val])

UncheckedArray(info, array_info) ==
    IF ~IsOk(array_info) THEN array_info
    ELSE Ok([variant |-> "Array", info |-> info, array_info |-> array_info.val])

Single(info) == Ok([variant |-> "Single", info |-> info])

(* the part of Register::parse and of Cluster::parse after the info is parsed *)
SingleOrArray_unchecked(t, info) ==
    IF ~IsOk(info) THEN info
    ELSE IF HasChild(t, "dimIncrement")
    THEN UncheckedArray(info.val, RegisterClusterArrayInfo_parse(t))
    ELSE Single(info.val)

SingleOrArray_on_dim(t, info) ==
    IF ~IsOk(info) THEN info
    ELSE IF HasChild(t, "dim")
    THEN CheckedArray(info.val, RegisterClusterArrayInfo_parse(t))
    ELSE Single(info.val)

SingleOrArray(t, info) ==
    IF ~IsOk(info) THEN info
    ELSE IF HasChild(t, "dimIncrement")
    THEN CheckedArray(info.val, RegisterClusterArrayInfo_parse(t))
    ELSE Single(info.val)

Register_parse(t) ==
    IF t.name # "register" THEN Panic ELSE SingleOrArray(t, RegisterInfo_parse(t))

----------------------------------------------------------------------------
(* cluster_register_parse, ClusterInfo, Cluster *)

RECURSIVE cluster_register_parse(_)
RECURSIVE Cluster_parse(_)
RECURSIVE ClusterInfo_parse(_)

(* Ok(Either::Left(r?)), Ok(Either::Right(c?)) *)
OkEither(side, r) == IF IsOk(r) THEN Ok([side |-> side, val |-> r.val]) ELSE r

cluster_register_parse(t) ==
    IF t.name = "register" THEN OkEither("Left", Register_parse(t))
    ELSE IF t.name = "cluster" THEN OkEither("Right", Cluster_parse(t))
    ELSE Panic

(* nodes.iter().map(cluster_register_parse).collect() *)
ParseEach_reversed(nodes) ==
    Collect([i \in DOMAIN nodes |-> cluster_register_parse(nodes[Len(nodes) + 1 - i])])

ParseEach(nodes) == Collect([i \in DOMAIN nodes |-> cluster_register_parse(nodes[i])])

ClusterInfo_build(s) ==
    IF AllOk(s)
    THEN Ok([name |-> s[1].val,
             description |-> s[2].val,
             header_struct_name |-> s[3].val,
             address_offset |-> s[4].val,
             size |-> s[5].val,
             access |-> s[6].val,
             reset_value |-> s[7].val,
             reset_mask |-> s[8].val,
             children |-> s[9].val])
    ELSE FirstFailure(s)

ClusterInfo_parse(t) ==
    ClusterInfo_build(<<get_child_text(t, "name"),
                        get_child_text(t, "description"),
                        get_child_text_opt(t, "headerStructName"),
                        get_child_u32("addressOffset", t),
                        OptionalU32OrPanic(t, "size"),
                        parse_optional("access", t, "Access::parse"),
                        parse_optional("resetValue", t, "parse::u32"),
                        parse_optional("resetMask", t, "parse::u32"),
                        ParseEach(FilterByName(t.children, {"register", "cluster"}))>>)

Cluster_parse(t) ==
    IF t.name # "cluster" THEN Panic ELSE SingleOrArray(t, ClusterInfo_parse(t))

----------------------------------------------------------------------------
(* Peripheral::derive_from *)

derive_from_concat(s, o) ==
    [s EXCEPT !.group_name = OptionOr(s.group_name, o.group_name),
              !.description = OptionOr(s.description, o.description),
              !.registers = OptionOr(s.registers, o.registers),
              !.interrupt = s.interrupt \o o.interrupt]

derive_from_empty_registers(s, o) ==
    [s EXCEPT !.group_name = OptionOr(s.group_name, o.group_name),
              !.description = OptionOr(s.description, o.description),
              !.registers = IF IsSome(s.registers) /\ s.registers[1] # <<>>
                            THEN s.registers ELSE o.registers,
              !.interrupt = IF s.interrupt = <<>> THEN o.interrupt
                            ELSE s.interrupt]

derive_from(s, o) ==
    LET d0 == s
        d1 == [d0 EXCEPT !.group_name = OptionOr(d0.group_name, o.group_name)]
        d2 == [d1 EXCEPT !.description = OptionOr(d1.description, o.description)]
        d3 == [d2 EXCEPT !.registers = OptionOr(d2.registers, o.registers)]
        d4 == IF d3.interrupt = <<>>
              THEN [d3 EXCEPT !.interrupt = o.interrupt]
              ELSE d3
    IN d4

----------------------------------------------------------------------------
(* Peripheral::parse *)

(* try!(parse::u32(try!(tree.get_child("baseAddress")))) *)
Peripheral_base_address(t) ==
    IF HasChild(t, "baseAddress") THEN parse_u32_or_panic(GetChild(t, "baseAddress")[1])
    ELSE Panic

(* the interrupt: initializer: every <interrupt> child, with its ordinal *)
Peripheral_interrupt(nodes) ==
    Collect([i \in DOMAIN nodes |->
               Context(Interrupt_parse(nodes[i]), "Parsing interrupt #", i - 1)])

(* the registers: initializer *)
Peripheral_registers(t) ==
    IF HasChild(t, "registers")
    THEN OkSome(ParseEach(GetChild(t, "registers")[1].children))
    ELSE Ok(None)

Peripheral_build(name, s) ==
    IF AllOk(s)
    THEN Ok([name |-> name,
             group_name |-> s[1].val,
             description |-> s[2].val,
             base_address |-> s[3].val,
             interrupt |-> s[4].val,
             registers |-> s[5].val,
             derived_from |-> s[6].val])
    ELSE FirstFailure(s)

Peripheral__parse(t, name) ==
    Peripheral_build(name,
                     <<get_child_text_opt(t, "groupName"),
                       get_child_text_opt(t, "description"),
                       Peripheral_base_address(t),
                       Peripheral_interrupt(FilterByName(t.children, {"interrupt"})),
                       Peripheral_registers(t),
                       Ok(GetAttribute(t, "derivedFrom"))>>)

Peripheral_named_name_in_context(t, name) ==
    IF IsOk(name)
    THEN Context(Peripheral__parse(t, name.val), "In peripheral", name.val)
    ELSE Context(name, "In peripheral", "")

(* let name = ..?; Peripheral::_parse(tree, name.clone())
   .context(.. "In peripheral `{}`" ..) *)
Peripheral_named(t, name) ==
    IF IsOk(name)
    THEN Context(Peripheral__parse(t, name.val), "In peripheral", name.val)
    ELSE name

Peripheral_parse(t) ==
    IF t.name # "peripheral" THEN Err(NotExpectedTag(t, "peripheral"))
    ELSE Peripheral_named(t, get_child_text(t, "name"))

----------------------------------------------------------------------------
(* Defaults::parse, Device::parse *)

Defaults_build(s) ==
    IF AllOk(s)
    THEN Ok([size |-> s[1].val,
             reset_value |-> s[2].val,
             reset_mask |-> s[3].val,
             access |-> s[4].val])
    ELSE FirstFailure(s)

(* parse::optional("access", tree, Access::parse).unwrap() *)
Unwrap_discarding(r) == IF IsOk(r) THEN r ELSE Ok(None)

Unwrap(r) == IF IsOk(r) THEN r ELSE Panic

(* Defaults::parse returns a Defaults, not a Result: Ok is a returned value *)
Defaults_parse(t) ==
    Defaults_build(<<OptionalU32OrPanic(t, "size"),
                     OptionalU32OrPanic(t, "resetValue"),
                     OptionalU32OrPanic(t, "resetMask"),
                     Unwrap(parse_optional("access", t, "Access::parse"))>>)

(* Element::parse of the xmltree crate: fails on a document that is not
   well-formed XML *)
Element_parse(doc) ==
    IF doc.wellformed THEN Ok(doc.root) ELSE Err([kind |-> "Xml"])

RECURSIVE OkValues(_)
OkValues(rs) ==
    IF rs = <<>> THEN <<>>
    ELSE IF IsOk(Head(rs)) THEN <<Head(rs).val>> \o OkValues(Tail(rs))
    ELSE OkValues(Tail(rs))

ParsePeripherals_keep_parsed(nodes) ==
    Ok(OkValues([i \in DOMAIN nodes |-> Peripheral_parse(nodes[i])]))

(* .children.iter().map(Peripheral::parse).collect(); ps? *)
ParsePeripherals(nodes) == Collect([i \in DOMAIN nodes |-> Peripheral_parse(nodes[i])])

(* the peripherals: initializer of Device::parse *)
Device_peripherals(t) ==
    IF HasChild(t, "peripherals")
    THEN ParsePeripherals(GetChild(t, "peripherals")[1].children)
    ELSE Err(MissingTag(t, "peripherals"))

Device_build(s) ==
    IF AllOk(s)
    THEN Ok([name |-> s[1].val,
             cpu |-> s[2].val,
             peripherals |-> s[3].val,
             defaults |-> s[4].val])
    ELSE FirstFailure(s)

(* the struct literal of Device::parse, on the parsed tree *)
Device_construct(t) ==
    Device_build(<<Expect(get_child_text(t, "name")),
                   parse_optional("cpu", t, "Cpu::parse"),
                   Device_peripherals(t),
                   Defaults_parse(t)>>)

(* let tree = &try!(Element::parse(svd.as_bytes())); Ok(Device { .. }) *)
Device_on_tree(parsed) == IF IsOk(parsed) THEN Device_construct(parsed.val) ELSE parsed

Device_parse(doc) == Device_on_tree(Expect(Element_parse(doc)))

----------------------------------------------------------------------------
(* Peripheral values handed to derive_from *)

RECURSIVE SeqsUpTo(_, _)
SeqsUpTo(S, n) ==
    IF n = 0 THEN {<<>>}
    ELSE LET shorter == SeqsUpTo(S, n - 1)
         IN shorter \cup {Append(q, x) : q \in {r \in shorter : Len(r) = n - 1}, x \in S}

RegisterValues == {None, Some(<<>>), Some(<<"R1">>)}

(* the interrupts of each peripheral are its own, so that a merged list tells
   which peripheral it came from *)
PeripheralValues(name, base, from, irq) ==
    [name : {name},
     group_name : {None, Some("g")},
     description : {None, Some("d"), Some("other")},
     base_address : {base},
     interrupt : SeqsUpTo({irq}, MaxInterrupts),
     registers : RegisterValues,
     derived_from : {from}]

NoValue == <<>>

InitDerive ==
    /\ pc = "start"
    /\ self \in PeripheralValues("A", 1, Some("B"), "I0")
    /\ other \in PeripheralValues("B", 2, Some("C"), "I1")
    /\ third \in PeripheralValues("C", 3, None, "I2")
    /\ derived = NoValue
    /\ tree = NoValue
    /\ result = NoValue

(* let merged = self.derive_from(&other) *)
Derive ==
    /\ pc = "start"
    /\ derived' = derive_from(self, other)
    /\ pc' = "derived"
    /\ UNCHANGED <<self, other, third, tree, result>>

(* a caller resolving A -> B -> C from the derived end: merged.derive_from(&third) *)
DeriveChain ==
    /\ pc = "derived"
    /\ derived' = derive_from(derived, third)
    /\ pc' = "chained"
    /\ UNCHANGED <<self, other, third, tree, result>>

NextDerive == Derive \/ DeriveChain

SpecDerive == InitDerive /\ [][NextDerive]_vars

----------------------------------------------------------------------------
(* The documents handed to the parsers: nodes as xmltree builds them *)

Elem(name, text, children) ==
    [name |-> name, attributes |-> {}, children |-> children, text |-> text]

Leaf(name, s) == Elem(name, Some(s), <<>>)

(* an optional child: absent, or present with one of the texts *)
Optional(name, texts) == {<<>>} \cup {<<Leaf(name, s)>> : s \in texts}

(* the same, or present with no text at all *)
OptionalOrEmpty(name, texts) == Optional(name, texts) \cup {<<Elem(name, None, <<>>)>>}

FieldNode(name, range) ==
    Elem("field", None, <<Leaf("name", name)>> \o range)

FieldNodes ==
    {FieldNode("F0", <<Leaf("bitRange", "[7:0]")>>),
     FieldNode("F1", <<Leaf("bitRange", "[15:8]")>>),
     Elem("enumeratedValues", None, <<Leaf("name", "E")>>)}

FieldsChoices ==
    {<<>>} \cup {<<Elem("fields", None, fs)>> : fs \in SeqsUpTo(FieldNodes, MaxFields)}

DimChoices == Optional("dim", {"2", "3", "0x10"})

DimIncrementChoices == Optional("dimIncrement", {"4", "bad"})

DimIndexChoices == OptionalOrEmpty("dimIndex", {"0,1", "0-2", "0,2-4,X"})

RegisterNodes ==
    {Elem("register", None,
          n \o d \o <<Leaf("addressOffset", "0x10")>> \o sz \o dm \o di \o dx \o fs) :
        n \in Optional("name", {"REG%s", "REG"}),
        d \in Optional("description", {"a register"}),
        sz \in Optional("size", {"0x20", "bad"}),
        dm \in DimChoices,
        di \in DimIncrementChoices,
        dx \in DimIndexChoices,
        fs \in FieldsChoices}

(* the nodes found under <registers> and <cluster> *)
RegisterR0 ==
    Elem("register", None,
         <<Leaf("name", "R0"), Leaf("description", "r"), Leaf("addressOffset", "1")>>)

RegisterArray ==
    Elem("register", None,
         <<Leaf("name", "REG%s"), Leaf("description", "r"), Leaf("addressOffset", "2"),
           Leaf("dim", "2"), Leaf("dimIncrement", "4"), Leaf("dimIndex", "0,1")>>)

RegisterNoDescription ==
    Elem("register", None, <<Leaf("name", "R2"), Leaf("addressOffset", "3")>>)

RegisterBadSize ==
    Elem("register", None,
         <<Leaf("name", "R3"), Leaf("description", "r"), Leaf("addressOffset", "3"),
           Leaf("size", "bad")>>)

ClusterNode(name, children) ==
    Elem("cluster", None,
         <<Leaf("name", name), Leaf("description", "c"), Leaf("addressOffset", "4")>>
         \o children)

ClusterC0 == ClusterNode("C0", <<>>)

ClusterMixed == ClusterNode("C1", <<ClusterC0, RegisterR0, RegisterArray>>)

InnerNodes == {RegisterR0, RegisterArray, ClusterC0, Leaf("reserved", "x")}

ClusterNodes ==
    {Elem("cluster", None,
          n \o <<Leaf("description", "c"), Leaf("addressOffset", "4")>>
          \o dm \o di \o dx \o cs) :
        n \in Optional("name", {"CL%s", "CL"}),
        dm \in DimChoices,
        di \in DimIncrementChoices,
        dx \in DimIndexChoices,
        cs \in SeqsUpTo(InnerNodes, MaxChildren)}

InterruptNodes ==
    {Elem("interrupt", None, <<Leaf("name", "IRQ"), Leaf("value", "3")>>),
     Elem("interrupt", None, <<Leaf("name", "IRQ"), Leaf("value", "bad")>>)}

RegistersNodes ==
    {RegisterR0, RegisterNoDescription, RegisterBadSize, ClusterMixed,
     Leaf("reserved", "x")}

RegistersChoices ==
    {<<>>} \cup {<<Elem("registers", None, rs)>> : rs \in SeqsUpTo(RegistersNodes, MaxChildren)}

PeripheralNodes ==
    {[Elem("peripheral", None, n \o g \o b \o is \o rs) EXCEPT !.attributes = a] :
        n \in OptionalOrEmpty("name", {"P"}),
        g \in OptionalOrEmpty("groupName", {"g"}),
        b \in Optional("baseAddress", {"0x10", "bad"}),
        is \in SeqsUpTo(InterruptNodes, MaxInterrupts),
        rs \in RegistersChoices,
        a \in {{}, {<<"derivedFrom", "B">>}}}
    \cup {Elem("cpu", None, <<Leaf("name", "P"), Leaf("baseAddress", "0x10")>>)}

(* the children of <peripherals> *)
PeripheralGood(name, rest) ==
    Elem("peripheral", None, <<Leaf("name", name), Leaf("baseAddress", "0x10")>> \o rest)

DeviceChildren ==
    {PeripheralGood("A", <<>>),
     PeripheralGood("B", <<Elem("registers", None, <<RegisterR0>>)>>),
     PeripheralGood("E", <<Leaf("description", "d"), Elem("groupName", None, <<>>)>>),
     Elem("peripheral", None, <<Leaf("baseAddress", "0x10")>>),
     Elem("peripheral", None, <<Leaf("name", "Q"), Leaf("baseAddress", "bad")>>)}

PeripheralsChoices ==
    {<<>>} \cup {<<Elem("peripherals", None, ps)>> :
                    ps \in SeqsUpTo(DeviceChildren, MaxPeripherals)}

CpuChoices ==
    {<<>>, <<Elem("cpu", None, <<Leaf("name", "CM4")>>)>>, <<Elem("cpu", None, <<>>)>>}

DeviceRoots ==
    {Elem("device", None, n \o c \o ps \o sz \o rv \o rm \o ac) :
        n \in Optional("name", {"DEV"}),
        c \in CpuChoices,
        ps \in PeripheralsChoices,
        sz \in Optional("size", {"0x20", "bad"}),
        rv \in Optional("resetValue", {"bad"}),
        rm \in Optional("resetMask", {"0x10"}),
        ac \in OptionalOrEmpty("access", {"read-only", "bad"})}

DeviceDocuments ==
    {[wellformed |-> TRUE, root |-> r] : r \in DeviceRoots}
    \cup {[wellformed |-> FALSE, root |-> Elem("device", None, <<>>)]}

----------------------------------------------------------------------------
(* The parsers as operations: a call on a document, then its return *)

Call(f) == <<"call", f>>

Return(f) == <<"return", f>>

Init ==
    /\ \/ pc = Call("Register::parse") /\ tree \in RegisterNodes
       \/ pc = Call("Cluster::parse") /\ tree \in ClusterNodes
       \/ pc = Call("Peripheral::parse") /\ tree \in PeripheralNodes
       \/ pc = Call("Defaults::parse") /\ tree \in DeviceRoots
       \/ pc = Call("Device::parse") /\ tree \in DeviceDocuments
    /\ result = NoValue
    /\ self = NoValue
    /\ other = NoValue
    /\ third = NoValue
    /\ derived = NoValue

RegisterParse ==
    /\ pc = Call("Register::parse")
    /\ result' = Register_parse(tree)
    /\ pc' = Return("Register::parse")
    /\ UNCHANGED <<tree, self, other, third, derived>>

ClusterParse ==
    /\ pc = Call("Cluster::parse")
    /\ result' = Cluster_parse(tree)
    /\ pc' = Return("Cluster::parse")
    /\ UNCHANGED <<tree, self, other, third, derived>>

PeripheralParse ==
    /\ pc = Call("Peripheral::parse")
    /\ result' = Peripheral_parse(tree)
    /\ pc' = Return("Peripheral::parse")
    /\ UNCHANGED <<tree, self, other, third, derived>>

DefaultsParse ==
    /\ pc = Call("Defaults::parse")
    /\ result' = Defaults_parse(tree)
    /\ pc' = Return("Defaults::parse")
    /\ UNCHANGED <<tree, self, other, third, derived>>

DeviceParse ==
    /\ pc = Call("Device::parse")
    /\ result' = Device_parse(tree)
    /\ pc' = Return("Device::parse")
    /\ UNCHANGED <<tree, self, other, third, derived>>

Next == RegisterParse \/ ClusterParse \/ PeripheralParse \/ DefaultsParse \/ DeviceParse

Spec == Init /\ [][Next]_vars

----------------------------------------------------------------------------
(* C1: self.derive_from(other) takes group_name and description from self  *)
(* when set and otherwise from other, registers from self when present     *)
(* (even if empty) and otherwise from other, interrupt from self when      *)
(* non-empty and otherwise from other; name, base_address and derived_from *)
(* are self's, and self and other are left as they were.                   *)
C1_DeriveFromFallback ==
    [][pc = "start" =>
        /\ derived'.group_name =
             (IF self.group_name # None THEN self.group_name ELSE other.group_name)
        /\ derived'.description =
             (IF self.description # None THEN self.description ELSE other.description)
        /\ derived'.registers =
             (IF self.registers # None THEN self.registers ELSE other.registers)
        /\ derived'.interrupt =
             (IF self.interrupt # <<>> THEN self.interrupt ELSE other.interrupt)
        /\ derived'.name = self.name
        /\ derived'.base_address = self.base_address
        /\ derived'.derived_from = self.derived_from
        /\ self' = self
        /\ other' = other]_vars

(* C1: the case of the specification's example has been merged, and a case *)
(* where self's register list is present but empty *)
C1_Witness ==
    /\ pc = "derived"
    /\ self.group_name = None /\ self.description = Some("d") /\ self.interrupt = <<>>
    /\ self.registers = Some(<<>>)
    /\ other.group_name = Some("g") /\ other.description = Some("other")
    /\ other.interrupt = <<"I1">> /\ other.registers = Some(<<"R1">>)
    /\ derived.group_name = Some("g") /\ derived.description = Some("d")
    /\ derived.interrupt = <<"I1">> /\ derived.registers = Some(<<>>)

(* C10: derive_from is associative and idempotent: merging A -> B -> C     *)
(* from the derived end gives what merging from the base end gives, and    *)
(* merging the same base a second time changes nothing.                    *)
C10_DeriveFromAssociativeIdempotent ==
    /\ pc = "chained" => derived = derive_from(self, derive_from(other, third))
    /\ pc = "derived" => derive_from(derived, other) = derived

(* C10: a chain in which each of the three peripherals supplies a field *)
C10_Witness ==
    /\ pc = "chained"
    /\ self.description # None /\ self.group_name = None /\ self.interrupt = <<>>
    /\ self.registers = None
    /\ other.group_name # None /\ other.interrupt = <<>> /\ other.registers = None
    /\ third.interrupt # <<>> /\ third.registers # None
    /\ derived.interrupt = third.interrupt /\ derived.registers = third.registers
    /\ derived.group_name = other.group_name /\ derived.description = self.description

----------------------------------------------------------------------------
(* What the documents say, read off the nodes *)

Returned(f) == pc = Return(f)

ReturnedNode == Returned("Register::parse") \/ Returned("Cluster::parse")

(* the text of the child k of node t, when the child is there with a text *)
HasText(t, k) == HasChild(t, k) /\ GetChild(t, k)[1].text # None

TextOf(t, k) == GetChild(t, k)[1].text[1]

Decodes(t, k, texts) == HasText(t, k) /\ TextOf(t, k) \in texts

RegisterOrCluster(nodes) == FilterByName(nodes, {"register", "cluster"})

(* the common info of a register or cluster node *)
InfoOf(t) == IF t.name = "register" THEN RegisterInfo_parse(t) ELSE ClusterInfo_parse(t)

(* C2: an Array returned by Register::parse or Cluster::parse has a name   *)
(* with the placeholder %s and, when it has an index list, one as long as  *)
(* dim; a node with dimIncrement whose dimIndex expands to a list of       *)
(* another length than its dim is not returned at all, as Array or Single. *)
IndexLengthMismatch(t) ==
    /\ HasChild(t, "dimIncrement")
    /\ HasText(t, "dimIndex")
    /\ Decodes(t, "dim", DecimalText)
    /\ Len(parse_dim_index(TextOf(t, "dimIndex"))) # U32Value(TextOf(t, "dim"))

C2_ArrayConsistent ==
    ReturnedNode =>
        /\ (IsOk(result) /\ result.val.variant = "Array") =>
              /\ ContainsPlaceholder(result.val.info.name)
              /\ result.val.array_info.dim_index # None =>
                    Len(result.val.array_info.dim_index[1]) = result.val.array_info.dim
        /\ IndexLengthMismatch(tree) => ~IsOk(result)

(* C2: a register whose info parses, named with %s, with dim 2 and an      *)
(* index list of three labels, has been rejected by the assertion *)
C2_Witness ==
    /\ Returned("Register::parse")
    /\ IsOk(InfoOf(tree))
    /\ Decodes(tree, "name", {"REG%s"})
    /\ Decodes(tree, "dimIncrement", U32Text)
    /\ Decodes(tree, "dim", {"2"})
    /\ Decodes(tree, "dimIndex", {"0-2"})
    /\ result = Panic

(* C3: the registers list of a parsed peripheral, and the children list of *)
(* every parsed cluster, has one entry per <register>/<cluster> child in   *)
(* document order, Left for a <register> and Right for a <cluster>.        *)
RECURSIVE Mirrors(_, _)
Mirrors(nodes, entries) ==
    /\ Len(entries) = Len(nodes)
    /\ \A i \in DOMAIN nodes :
          /\ entries[i].side = (IF nodes[i].name = "register" THEN "Left" ELSE "Right")
          /\ entries[i].val.info.name = TextOf(nodes[i], "name")
          /\ nodes[i].name = "cluster" =>
                Mirrors(RegisterOrCluster(nodes[i].children), entries[i].val.info.children)

C3_DocumentOrder ==
    /\ (Returned("Peripheral::parse") /\ IsOk(result) /\ HasChild(tree, "registers")) =>
          /\ result.val.registers # None
          /\ Mirrors(RegisterOrCluster(GetChild(tree, "registers")[1].children),
                     result.val.registers[1])
    /\ (Returned("Cluster::parse") /\ IsOk(result)) =>
          Mirrors(RegisterOrCluster(tree.children), result.val.info.children)

(* C3: a peripheral whose <registers> holds a cluster (itself holding a    *)
(* cluster and two registers) followed by a register has been parsed *)
C3_Witness ==
    /\ Returned("Peripheral::parse")
    /\ IsOk(result)
    /\ HasChild(tree, "registers")
    /\ GetChild(tree, "registers")[1].children = <<ClusterMixed, RegisterR0>>
    /\ Len(result.val.registers[1]) = 2
    /\ result.val.registers[1][1].side = "Right"
    /\ Len(result.val.registers[1][1].val.info.children) = 3
    /\ result.val.registers[1][2].side = "Left"

AllDefaultsDecode(t) ==
    /\ HasChild(t, "size") => Decodes(t, "size", U32Text)
    /\ HasChild(t, "resetValue") => Decodes(t, "resetValue", U32Text)
    /\ HasChild(t, "resetMask") => Decodes(t, "resetMask", U32Text)
    /\ HasChild(t, "access") => Decodes(t, "access", AccessText)

DefaultOf(t, k, field) ==
    IF HasChild(t, k) THEN field = Some(U32Value(TextOf(t, k))) ELSE field = None

C5_FailuresWrapped ==
    (/\ Returned("Peripheral::parse")
     /\ tree.name = "peripheral"
     /\ HasText(tree, "name")) =>
        \/ IsOk(result)
        \/ /\ result.kind = "Err"
           /\ result.err.kind = "Other"
           /\ result.err.msg = "In peripheral"
           /\ result.err.arg = TextOf(tree, "name")

(* C6: a <peripheral> without a <name> child fails with MissingTag of that *)
(* node and the tag "name", not wrapped in any context, whatever its other *)
(* children hold.                                                          *)
C6_MissingName ==
    (/\ Returned("Peripheral::parse")
     /\ tree.name = "peripheral"
     /\ ~HasChild(tree, "name")) =>
        /\ result.kind = "Err"
        /\ result.err.kind = "MissingTag"
        /\ result.err.tag = "name"
        /\ result.err.node = tree

(* C6: a peripheral without <name> whose baseAddress does not decode and   *)
(* whose groupName has no text has returned the MissingTag failure *)
C6_Witness ==
    /\ Returned("Peripheral::parse")
    /\ tree.name = "peripheral"
    /\ ~HasChild(tree, "name")
    /\ HasChild(tree, "baseAddress") /\ ~Decodes(tree, "baseAddress", U32Text)
    /\ HasChild(tree, "groupName") /\ ~HasText(tree, "groupName")
    /\ result.kind = "Err"
    /\ result.err.kind = "MissingTag"

(* the outcomes of Peripheral::parse on the children of <peripherals> *)
ChildOutcomes(root) ==
    LET ps == GetChild(root, "peripherals")[1].children
    IN [i \in DOMAIN ps |-> Peripheral_parse(ps[i])]

(* the steps of Device::parse before the peripherals succeed *)
ReachesPeripherals(root) ==
    /\ IsOk(get_child_text(root, "name"))
    /\ IsOk(parse_optional("cpu", root, "Cpu::parse"))

(* C7: Device::parse is all-or-nothing over the children of <peripherals>: *)
(* when a child fails, Device::parse does not return a Device, and once    *)
(* the name and cpu are read its outcome is the outcome of the first       *)
(* failing child in document order; a returned Device has one peripheral   *)
(* per child, in document order.                                           *)
C7_AllOrNothing ==
    (/\ Returned("Device::parse")
     /\ tree.wellformed
     /\ HasChild(tree.root, "peripherals")) =>
        LET ps == GetChild(tree.root, "peripherals")[1].children
            rs == ChildOutcomes(tree.root)
        IN /\ ~AllOk(rs) => ~IsOk(result)
           /\ (~AllOk(rs) /\ ReachesPeripherals(tree.root)) =>
                 /\ result.kind = FirstFailure(rs).kind
                 /\ result.kind = "Err" => result.err = FirstFailure(rs).err
           /\ IsOk(result) =>
                 /\ Len(result.val.peripherals) = Len(ps)
                 /\ \A i \in DOMAIN ps :
                       /\ result.val.peripherals[i].name = TextOf(ps[i], "name")
                       /\ result.val.peripherals[i] = rs[i].val

(* C7: with a first child that returns a failure and a second child that   *)
(* would panic, Device::parse has returned the failure of the first *)
C7_Witness ==
    /\ Returned("Device::parse")
    /\ tree.wellformed
    /\ ReachesPeripherals(tree.root)
    /\ HasChild(tree.root, "peripherals")
    /\ Len(ChildOutcomes(tree.root)) = 2
    /\ ChildOutcomes(tree.root)[1].kind = "Err"
    /\ ChildOutcomes(tree.root)[2].kind = "Panic"
    /\ result = ChildOutcomes(tree.root)[1]

(* C8: the fields of a parsed register are None exactly when the node has  *)
(* no <fields> child, and otherwise Some of one Field per child of         *)
(* <fields>, in document order; an empty <fields> gives Some([]).          *)
C8_FieldsAbsentOrList ==
    (Returned("Register::parse") /\ IsOk(result)) =>
        LET fields == result.val.info.fields
        IN IF HasChild(tree, "fields")
           THEN LET nodes == GetChild(tree, "fields")[1].children
                IN /\ fields # None
                   /\ Len(fields[1]) = Len(nodes)
                   /\ \A i \in DOMAIN nodes : fields[1][i].name = TextOf(nodes[i], "name")
           ELSE fields = None

(* C8: a register with a present but empty <fields> has been parsed *)
C8_Witness ==
    /\ Returned("Register::parse")
    /\ IsOk(result)
    /\ HasChild(tree, "fields")
    /\ GetChild(tree, "fields")[1].children = <<>>
    /\ result.val.info.fields = Some(<<>>)

(* C9: a parsed register or cluster is the Array variant exactly when the  *)
(* node has a <dimIncrement> child; without one, a node whose info parses  *)
(* is returned as Single whatever its <dim> and <dimIndex> hold; with one  *)
(* and no <dim>, a node whose info parses fails with MissingTag "dim".     *)
C9_VariantByDimIncrement ==
    ReturnedNode =>
        /\ IsOk(result) =>
              /\ result.val.variant \in {"Single", "Array"}
              /\ result.val.variant = "Array" <=> HasChild(tree, "dimIncrement")
        /\ (~HasChild(tree, "dimIncrement") /\ IsOk(InfoOf(tree))) =>
              /\ IsOk(result)
              /\ result.val.variant = "Single"
              /\ result.val.info = InfoOf(tree).val
        /\ (HasChild(tree, "dimIncrement") /\ ~HasChild(tree, "dim") /\ IsOk(InfoOf(tree))) =>
              /\ result.kind = "Err"
              /\ result.err.kind = "MissingTag"
              /\ result.err.tag = "dim"
              /\ result.err.node = tree

(* C9: a register with a <dim> that is no decimal number and a <dimIndex>  *)
(* without text, but no <dimIncrement>, has been returned as Single *)
C9_Witness ==
    /\ Returned("Register::parse")
    /\ ~HasChild(tree, "dimIncrement")
    /\ HasChild(tree, "dim") /\ ~Decodes(tree, "dim", DecimalText)
    /\ HasChild(tree, "dimIndex") /\ ~HasText(tree, "dimIndex")
    /\ IsOk(result)
    /\ result.val.variant = "Single"

====
